---- MODULE Spec2Model ----
(***************************************************************************)
(* Model of collector/service.go: the windows_exporter service collector.  *)
(* One pass (serviceCollector.collect) reads the services either through   *)
(* the service control manager API (flag wmiDisabled) or through one WMI   *)
(* query, and sends the metric rows of every service to the channel ch.    *)
(* Spec is one pass over any service table; SpecConc is two passes that    *)
(* overlap in time, each step of either pass interleaved with the other's. *)
(***************************************************************************)
EXTENDS Integers, Sequences, FiniteSets, TLC

(* ----------------------------- bounds --------------------------------- *)
\* longest service list the manager or the WMI query returns
MaxServices == 2
\* raw state codes the API may report are 0..MaxStateCode
MaxStateCode == 8
\* raw start types the API may report are 0..MaxStartType
MaxStartType == 5

(* ------------------- golang.org/x/sys/windows codes -------------------- *)
SERVICE_STOPPED == 1
SERVICE_START_PENDING == 2
SERVICE_STOP_PENDING == 3
SERVICE_RUNNING == 4
SERVICE_CONTINUE_PENDING == 5
SERVICE_PAUSE_PENDING == 6
SERVICE_PAUSED == 7

SERVICE_BOOT_START == 0
SERVICE_SYSTEM_START == 1
SERVICE_AUTO_START == 2
SERVICE_DEMAND_START == 3
SERVICE_DISABLED == 4

(* ------------------------ canonical enumerations ----------------------- *)
allStates ==
  << "stopped", "start pending", "stop pending", "running",
     "continue pending", "pause pending", "paused", "unknown" >>

\* the map literal, as the sequence of its (key, value) entries in source order
apiStateValues ==
  << <<SERVICE_CONTINUE_PENDING, "continue pending">>,
     <<SERVICE_PAUSE_PENDING, "pause pending">>,
     <<SERVICE_PAUSED, "paused">>,
     <<SERVICE_RUNNING, "running">>,
     <<SERVICE_START_PENDING, "start pending">>,
     <<SERVICE_STOP_PENDING, "stop pending">>,
     <<SERVICE_STOPPED, "stopped">> >>

allStartModes == << "boot", "system", "auto", "manual", "disabled" >>

apiStartModeValues ==
  << <<SERVICE_AUTO_START, "auto">>,
     <<SERVICE_BOOT_START, "boot">>,
     <<SERVICE_DEMAND_START, "manual">>,
     <<SERVICE_DISABLED, "disabled">>,
     <<SERVICE_SYSTEM_START, "system">> >>

allStatuses ==
  << "ok", "error", "degraded", "unknown", "pred fail", "starting",
     "stopping", "service", "stressed", "nonrecover", "no contact",
     "lost comm" >>

(* ------------------------------ helpers -------------------------------- *)
Range(s) == { s[i] : i \in DOMAIN s }

\* m[k] of a Go map: the value of the key, the zero value "" when absent
MapGet(m, k) ==
  IF \E i \in DOMAIN m : m[i][1] = k
    THEN (m[CHOOSE i \in DOMAIN m : m[i][1] = k])[2]
    ELSE ""

MapKeys(m) == { m[i][1] : i \in DOMAIN m }

\* the values of a Go map in the order a range statement visits them: the
\* runtime starts every range at an entry it picks at random (off) and goes
\* round from there
\* the entries a range over m may start at
MapOffsets(m) == 0..(Len(m) - 1)

MapRange(m, off) ==
  [ i \in 1..Len(m) |-> (m[((i - 1 + off) % Len(m)) + 1])[2] ]

\* strings.ToLower on the strings that occur: those holding an upper-case
\* letter are listed with their image, every other string is its own image
UpperCased ==
  [ s \in { "WinRM", "Spooler", "W32Time",
            "Stopped", "Start Pending", "Stop Pending", "Running",
            "Continue Pending", "Pause Pending", "Paused", "Unknown",
            "RUNNING", "Bogus",
            "Boot", "System", "Auto", "Manual", "Disabled", "AUTO",
            "OK", "Error", "Degraded", "Pred Fail", "Lost Comm" } |->
      CASE s = "WinRM" -> "winrm"
        [] s = "Spooler" -> "spooler"
        [] s = "W32Time" -> "w32time"
        [] s = "Stopped" -> "stopped"
        [] s = "Start Pending" -> "start pending"
        [] s = "Stop Pending" -> "stop pending"
        [] s = "Running" -> "running"
        [] s = "Continue Pending" -> "continue pending"
        [] s = "Pause Pending" -> "pause pending"
        [] s = "Paused" -> "paused"
        [] s = "Unknown" -> "unknown"
        [] s = "RUNNING" -> "running"
        [] s = "Bogus" -> "bogus"
        [] s = "Boot" -> "boot"
        [] s = "System" -> "system"
        [] s = "Auto" -> "auto"
        [] s = "Manual" -> "manual"
        [] s = "Disabled" -> "disabled"
        [] s = "AUTO" -> "auto"
        [] s = "OK" -> "ok"
        [] s = "Error" -> "error"
        [] s = "Degraded" -> "degraded"
        [] s = "Pred Fail" -> "pred fail"
        [] s = "Lost Comm" -> "lost comm" ]

ToLower(s) == IF s \in DOMAIN UpperCased THEN UpperCased[s] ELSE s

\* strconv.FormatUint(n, 10)
FormatUint(n) == ToString(n)

\* prometheus.MustNewConstMetric(desc, GaugeValue, value, labels...)
MustNewConstMetric(desc, value, labels) ==
  [ kind |-> desc, value |-> value, labels |-> labels ]

(* --------------------- rows of one service, API branch ------------------ *)
\* service: the listed name; cfg: mgr.Config; st: svc.Status
LiveInfoRow(service, cfg, st) ==
  MustNewConstMetric("info", 1,
    << ToLower(service), cfg.DisplayName, FormatUint(st.ProcessId),
       cfg.ServiceStartName >>)

LiveStateRows(service, stateCode, off) ==
  LET order == MapRange(apiStateValues, off) IN
  [ i \in 1..Len(order) |->
      MustNewConstMetric("state",
        IF order[i] = MapGet(apiStateValues, stateCode) THEN 1 ELSE 0,
        << ToLower(service), order[i] >>) ]

LiveStartModeRows(service, startType, off) ==
  LET order == MapRange(apiStartModeValues, off) IN
  [ i \in 1..Len(order) |->
      MustNewConstMetric("start_mode",
        IF order[i] = MapGet(apiStartModeValues, startType) THEN 1 ELSE 0,
        << ToLower(service), order[i] >>) ]

\* a bug: the status "ok" reported as the current one
LiveStatusRowsOk(service) ==
  [ i \in 1..Len(allStatuses) |->
      MustNewConstMetric("status",
        IF allStatuses[i] = "ok" THEN 1 ELSE 0,
        << ToLower(service), allStatuses[i] >>) ]

LiveStatusRows(service) ==
  [ i \in 1..Len(allStatuses) |->
      MustNewConstMetric("status", 0, << ToLower(service), allStatuses[i] >>) ]

(* --------------------- rows of one service, WMI branch ------------------ *)
\* service: a Win32_Service; StartName is <<>> (nil) or <<string>>
WMIInfoRow(service) ==
  MustNewConstMetric("info", 1,
    << ToLower(service.Name), service.DisplayName,
       FormatUint(service.ProcessId),
       IF service.StartName # <<>> THEN service.StartName[1] ELSE "" >>)

WMIStateRows(service) ==
  [ i \in 1..Len(allStates) |->
      MustNewConstMetric("state",
        IF allStates[i] = ToLower(service.State) THEN 1 ELSE 0,
        << ToLower(service.Name), allStates[i] >>) ]

\* a bug: the raw start mode compared without lower-casing it
WMIStartModeRowsNoLower(service) ==
  [ i \in 1..Len(allStartModes) |->
      MustNewConstMetric("start_mode",
        IF allStartModes[i] = service.StartMode THEN 1 ELSE 0,
        << ToLower(service.Name), allStartModes[i] >>) ]

WMIStartModeRows(service) ==
  [ i \in 1..Len(allStartModes) |->
      MustNewConstMetric("start_mode",
        IF allStartModes[i] = ToLower(service.StartMode) THEN 1 ELSE 0,
        << ToLower(service.Name), allStartModes[i] >>) ]

WMIStatusRows(service) ==
  [ i \in 1..Len(allStatuses) |->
      MustNewConstMetric("status",
        IF allStatuses[i] = ToLower(service.Status) THEN 1 ELSE 0,
        << ToLower(service.Name), allStatuses[i] >>) ]

(* ------------------------------ environment ---------------------------- *)
\* what the service control manager holds about one service
LiveEntry(name, state, startType) ==
  [ Name |-> name, DisplayName |-> name, StartType |-> startType,
    ServiceStartName |-> "LocalSystem", State |-> state,
    ProcessId |-> IF state = SERVICE_STOPPED THEN 0 ELSE 1234 ]

\* one Win32_Service instance of the WMI provider
WMIEntry(name, state, startMode, status, startName) ==
  [ Name |-> name, DisplayName |-> name,
    ProcessId |-> IF ToLower(state) = "stopped" THEN 0 ELSE 1234,
    State |-> state, Status |-> status, StartMode |-> startMode,
    StartName |-> startName ]

LiveFixtures ==
  << LiveEntry("WinRM", SERVICE_RUNNING, SERVICE_AUTO_START),
     LiveEntry("Spooler", SERVICE_STOPPED, SERVICE_DEMAND_START),
     LiveEntry("W32Time", 0, MaxStartType) >>

WMIFixtures ==
  << WMIEntry("WinRM", "Running", "Auto", "OK", << "LocalSystem" >>),
     WMIEntry("Spooler", "Stopped", "Manual", "Degraded", <<>>),
     WMIEntry("W32Time", "Bogus", "Unknown", "Bogus", <<>>) >>

WMIStateStrings ==
  { "Stopped", "Start Pending", "Stop Pending", "Running", "Continue Pending",
    "Pause Pending", "Paused", "Unknown", "RUNNING", "running", "Bogus", "" }

WMIStartModeStrings ==
  { "Boot", "System", "Auto", "Manual", "Disabled", "AUTO", "Unknown", "" }

WMIStatusStrings == { "OK", "Degraded", "Unknown", "Bogus" }

\* the lists of n entries of the sequence F, in the order of F
Lists(F, n) ==
  { [ i \in 1..n |-> F[g[i]] ] :
      g \in { f \in [1..n -> DOMAIN F] :
                \A i, j \in 1..n : i < j => f[i] < f[j] } }

LiveTables ==
  { <<>> }
    \cup { << LiveEntry("WinRM", s, t) >> :
             s \in 0..MaxStateCode, t \in 0..MaxStartType }
    \cup UNION { Lists(LiveFixtures, n) : n \in 1..MaxServices }

WMITables ==
  { <<>> }
    \cup { << WMIEntry("WinRM", s, m, u, n) >> :
             s \in WMIStateStrings, m \in WMIStartModeStrings,
             u \in WMIStatusStrings, n \in { <<>>, << "NT AUTHORITY" >> } }
    \cup UNION { Lists(WMIFixtures, n) : n \in 1..MaxServices }

(* --------------------------------- state ------------------------------- *)
VARIABLES
  wmiDisabled,       \* the flag collector.service.disable-wmi
  scm,               \* the services of the service control manager, in list order
  wmi,               \* the Win32_Service instances the WMI query selects
  passes,            \* the passes (calls of Collect) of this run
  handles,           \* the open SC_HANDLEs of the process: [id, kind, by, name]
  pc,                \* where each pass stands in collect
  svcmgrConnection,  \* handle id of the pass's manager connection, 0: none
  serviceList,       \* the names ListServices returned
  idx,               \* position of the range loop (1-based)
  serviceHandle,     \* handle id of the service of this iteration, 0: none
  serviceConfig,     \* Config() of this iteration
  serviceStatus,     \* Query() of this iteration
  dst,               \* the WMI query's result
  row,               \* rows the loop over an enumeration has sent so far
  off,               \* the entry the current range over a map started at
  ch,                \* the rows the pass has sent to its channel
  err,               \* the error collect returns, "nil" when none
  ops                \* history: the backend calls of the pass, in order

vars ==
  << wmiDisabled, scm, wmi, passes, handles, pc, svcmgrConnection,
     serviceList, idx, serviceHandle, serviceConfig, serviceStatus, dst, row,
     off, ch, err, ops >>

env == << wmiDisabled, scm, wmi, passes >>

NoConfig == [ DisplayName |-> "", StartType |-> 0, ServiceStartName |-> "" ]
NoStatus == [ State |-> 0, ProcessId |-> 0 ]

InitPass ==
  /\ handles = {}
  /\ pc = [ p \in passes |-> "start" ]
  /\ svcmgrConnection = [ p \in passes |-> 0 ]
  /\ serviceList = [ p \in passes |-> <<>> ]
  /\ idx = [ p \in passes |-> 0 ]
  /\ serviceHandle = [ p \in passes |-> 0 ]
  /\ serviceConfig = [ p \in passes |-> NoConfig ]
  /\ serviceStatus = [ p \in passes |-> NoStatus ]
  /\ dst = [ p \in passes |-> <<>> ]
  /\ row = [ p \in passes |-> 0 ]
  /\ off = [ p \in passes |-> 0 ]
  /\ ch = [ p \in passes |-> <<>> ]
  /\ err = [ p \in passes |-> "nil" ]
  /\ ops = [ p \in passes |-> <<>> ]

\* one pass (one call of Collect) over any service table
Init ==
  /\ wmiDisabled \in BOOLEAN
  /\ passes = { 1 }
  /\ IF wmiDisabled
       THEN scm \in LiveTables /\ wmi = <<>>
       ELSE scm = <<>> /\ wmi \in WMITables
  /\ InitPass

\* the passes of two scrapes that overlap in time
ConcurrentPasses == { 1, 2 }

\* two concurrent passes over a table of one service
InitConc ==
  /\ wmiDisabled \in BOOLEAN
  /\ passes = ConcurrentPasses
  /\ IF wmiDisabled
       THEN scm = << LiveFixtures[1] >> /\ wmi = <<>>
       ELSE scm = <<>> /\ wmi = << WMIFixtures[1] >>
  /\ InitPass

(* ------------------------------ operations ----------------------------- *)
\* the handle value the system hands out next: the lowest one not in use
NewHandle == CHOOSE n \in 1..(Cardinality(handles) + 1) :
               \A h \in handles : h.id # n

Op(op, ok, h, i) == [ op |-> op, ok |-> ok, h |-> h, i |-> i ]

\* windows.CloseServiceHandle on handle id h
CloseHandle(hs, h) == { x \in hs : x.id # h }

\* a bug: a failed connect is tried a second time
ConnectRetry(p) ==
  /\ pc[p] = "start"
  /\ wmiDisabled
  /\ \E ok \in BOOLEAN :
       /\ ops' = [ ops EXCEPT ![p] = Append(@, Op("Connect", ok, 0, 0)) ]
       /\ IF ok
            THEN /\ handles' = handles \cup
                       { [ id |-> NewHandle, kind |-> "scm", by |-> p, name |-> "" ] }
                 /\ svcmgrConnection' = [ svcmgrConnection EXCEPT ![p] = NewHandle ]
                 /\ pc' = [ pc EXCEPT ![p] = "list" ]
                 /\ err' = err
            ELSE /\ IF ops[p] = <<>>
                      THEN UNCHANGED << err, pc >>
                      ELSE /\ err' = [ err EXCEPT ![p] = "connect" ]
                           /\ pc' = [ pc EXCEPT ![p] = "done" ]
                 /\ UNCHANGED << handles, svcmgrConnection >>
  /\ UNCHANGED << env, serviceList, idx, serviceHandle, serviceConfig,
                  serviceStatus, dst, row, off, ch >>

\* mgr.Connect(), lines 156-160
Connect(p) ==
  /\ pc[p] = "start"
  /\ wmiDisabled
  /\ \E ok \in BOOLEAN :
       /\ ops' = [ ops EXCEPT ![p] = Append(@, Op("Connect", ok, 0, 0)) ]
       /\ IF ok
            THEN /\ handles' = handles \cup
                       { [ id |-> NewHandle, kind |-> "scm", by |-> p, name |-> "" ] }
                 /\ svcmgrConnection' = [ svcmgrConnection EXCEPT ![p] = NewHandle ]
                 /\ pc' = [ pc EXCEPT ![p] = "list" ]
                 /\ err' = err
            ELSE /\ err' = [ err EXCEPT ![p] = "connect" ]
                 /\ pc' = [ pc EXCEPT ![p] = "done" ]
                 /\ UNCHANGED << handles, svcmgrConnection >>
  /\ UNCHANGED << env, serviceList, idx, serviceHandle, serviceConfig,
                  serviceStatus, dst, row, off, ch >>

\* where the range loop goes after the iteration at position i
LoopNext(p, n) == IF n > Len(serviceList[p]) THEN "defer" ELSE "open"

\* a bug: a failed list-services taken for an empty list
ListServicesSwallow(p) ==
  /\ pc[p] = "list"
  /\ \E ok \in BOOLEAN :
       /\ ops' = [ ops EXCEPT ![p] =
                     Append(@, Op("ListServices", ok, svcmgrConnection[p], 0)) ]
       /\ serviceList' = [ serviceList EXCEPT ![p] =
                             IF ok THEN [ i \in 1..Len(scm) |-> scm[i].Name ]
                                   ELSE <<>> ]
       /\ idx' = [ idx EXCEPT ![p] = 1 ]
       /\ pc' = [ pc EXCEPT ![p] =
                    IF ok /\ Len(scm) > 0 THEN "open" ELSE "defer" ]
       /\ err' = err
  /\ UNCHANGED << env, handles, svcmgrConnection, serviceHandle, serviceConfig,
                  serviceStatus, dst, row, off, ch >>

\* svcmgrConnection.ListServices(), lines 163-166
ListServices(p) ==
  /\ pc[p] = "list"
  /\ \E ok \in BOOLEAN :
       /\ ops' = [ ops EXCEPT ![p] =
                     Append(@, Op("ListServices", ok, svcmgrConnection[p], 0)) ]
       /\ IF ok
            THEN /\ serviceList' = [ serviceList EXCEPT ![p] =
                                       [ i \in 1..Len(scm) |-> scm[i].Name ] ]
                 /\ idx' = [ idx EXCEPT ![p] = 1 ]
                 /\ pc' = [ pc EXCEPT ![p] =
                              IF Len(scm) = 0 THEN "defer" ELSE "open" ]
                 /\ err' = err
            ELSE /\ err' = [ err EXCEPT ![p] = "list" ]
                 /\ pc' = [ pc EXCEPT ![p] = "defer" ]
                 /\ UNCHANGED << serviceList, idx >>
  /\ UNCHANGED << env, handles, svcmgrConnection, serviceHandle, serviceConfig,
                  serviceStatus, dst, row, off, ch >>

\* the range loop of line 169 moves to its next element, or ends
NextIteration(p) ==
  /\ idx' = [ idx EXCEPT ![p] = @ + 1 ]
  /\ pc' = [ pc EXCEPT ![p] = LoopNext(p, idx[p] + 1) ]

\* a bug: break where the code has continue
ContinueAsBreak(p) ==
  /\ idx' = idx
  /\ pc' = [ pc EXCEPT ![p] = "defer" ]

\* the continue statements of lines 173, 180 and 187
Continue(p) == NextIteration(p)

\* svcmgrConnection.OpenService(service), lines 171-174
OpenService(p) ==
  /\ pc[p] = "open"
  /\ \E ok \in BOOLEAN :
       /\ ops' = [ ops EXCEPT ![p] =
                     Append(@, Op("OpenService", ok, svcmgrConnection[p], idx[p])) ]
       /\ IF ok
            THEN /\ handles' = handles \cup
                       { [ id |-> NewHandle, kind |-> "svc", by |-> p,
                           name |-> serviceList[p][idx[p]] ] }
                 /\ serviceHandle' = [ serviceHandle EXCEPT ![p] = NewHandle ]
                 /\ pc' = [ pc EXCEPT ![p] = "config" ]
                 /\ idx' = idx
            ELSE /\ Continue(p)
                 /\ UNCHANGED << handles, serviceHandle >>
  /\ UNCHANGED << env, svcmgrConnection, serviceList, serviceConfig,
                  serviceStatus, dst, row, off, ch, err >>

\* the manager's entry of the service a handle stands for
EntryOf(h) ==
  LET name == (CHOOSE x \in handles : x.id = h).name IN
  scm[CHOOSE i \in 1..Len(scm) : scm[i].Name = name]

\* serviceHandle.Config(), lines 177-181
Config(p) ==
  /\ pc[p] = "config"
  /\ \E ok \in BOOLEAN :
       IF ok
         THEN /\ ops' = [ ops EXCEPT ![p] =
                            Append(@, Op("Config", TRUE, serviceHandle[p], idx[p])) ]
              /\ serviceConfig' = [ serviceConfig EXCEPT ![p] =
                   [ DisplayName |-> EntryOf(serviceHandle[p]).DisplayName,
                     StartType |-> EntryOf(serviceHandle[p]).StartType,
                     ServiceStartName |->
                       EntryOf(serviceHandle[p]).ServiceStartName ] ]
              /\ pc' = [ pc EXCEPT ![p] = "query" ]
              /\ UNCHANGED << handles, idx >>
         ELSE /\ ops' = [ ops EXCEPT ![p] =
                            Append(@, Op("Config", FALSE, serviceHandle[p], idx[p])) ]
              /\ pc' = [ pc EXCEPT ![p] = "close" ]
              /\ UNCHANGED << handles, idx, serviceConfig >>
  /\ UNCHANGED << env, svcmgrConnection, serviceList, serviceHandle,
                  serviceStatus, dst, row, off, ch, err >>

\* serviceHandle.Query(), lines 184-188
Query(p) ==
  /\ pc[p] = "query"
  /\ \E ok \in BOOLEAN :
       IF ok
         THEN /\ ops' = [ ops EXCEPT ![p] =
                            Append(@, Op("Query", TRUE, serviceHandle[p], idx[p])) ]
              /\ serviceStatus' = [ serviceStatus EXCEPT ![p] =
                   [ State |-> EntryOf(serviceHandle[p]).State,
                     ProcessId |-> EntryOf(serviceHandle[p]).ProcessId ] ]
              /\ pc' = [ pc EXCEPT ![p] = "info" ]
              /\ UNCHANGED << handles, idx >>
         ELSE /\ ops' = [ ops EXCEPT ![p] =
                            Append(@, Op("Query", FALSE, serviceHandle[p], idx[p])) ]
              /\ pc' = [ pc EXCEPT ![p] = "close" ]
              /\ UNCHANGED << handles, idx, serviceStatus >>
  /\ UNCHANGED << env, svcmgrConnection, serviceList, serviceHandle,
                  serviceConfig, dst, row, off, ch, err >>

\* _ = serviceHandle.Close() and continue, lines 179-180 and 186-187
Close(p) ==
  /\ pc[p] = "close"
  /\ ops' = [ ops EXCEPT ![p] =
                Append(@, Op("Close", TRUE, serviceHandle[p], idx[p])) ]
  /\ handles' = CloseHandle(handles, serviceHandle[p])
  /\ Continue(p)
  /\ UNCHANGED << env, svcmgrConnection, serviceList, serviceHandle,
                  serviceConfig, serviceStatus, dst, row, off, ch, err >>

\* ch <- info row, lines 190-200, up to the start of the range of line 202
SendInfo(p) ==
  /\ pc[p] = "info"
  /\ ch' = [ ch EXCEPT ![p] =
              Append(@, LiveInfoRow(serviceList[p][idx[p]], serviceConfig[p],
                                    serviceStatus[p])) ]
  /\ \E o \in MapOffsets(apiStateValues) : off' = [ off EXCEPT ![p] = o ]
  /\ row' = [ row EXCEPT ![p] = 0 ]
  /\ pc' = [ pc EXCEPT ![p] = "state" ]
  /\ UNCHANGED << env, handles, svcmgrConnection, serviceList, idx,
                  serviceHandle, serviceConfig, serviceStatus, dst, err, ops >>

\* one ch <- state row, lines 202-214; after the last one the range of
\* line 216 starts
SendState(p) ==
  /\ pc[p] = "state"
  /\ ch' = [ ch EXCEPT ![p] =
              Append(@, LiveStateRows(serviceList[p][idx[p]],
                                      serviceStatus[p].State, off[p])[row[p] + 1]) ]
  /\ IF row[p] + 1 < Len(apiStateValues)
       THEN /\ row' = [ row EXCEPT ![p] = @ + 1 ]
            /\ UNCHANGED << off, pc >>
       ELSE /\ \E o \in MapOffsets(apiStartModeValues) :
                 off' = [ off EXCEPT ![p] = o ]
            /\ row' = [ row EXCEPT ![p] = 0 ]
            /\ pc' = [ pc EXCEPT ![p] = "mode" ]
  /\ UNCHANGED << env, handles, svcmgrConnection, serviceList, idx,
                  serviceHandle, serviceConfig, serviceStatus, dst, err, ops >>

\* one ch <- start_mode row, lines 216-228
SendStartMode(p) ==
  /\ pc[p] = "mode"
  /\ ch' = [ ch EXCEPT ![p] =
              Append(@, LiveStartModeRows(serviceList[p][idx[p]],
                                          serviceConfig[p].StartType,
                                          off[p])[row[p] + 1]) ]
  /\ IF row[p] + 1 < Len(apiStartModeValues)
       THEN /\ row' = [ row EXCEPT ![p] = @ + 1 ]
            /\ UNCHANGED << off, pc >>
       ELSE /\ off' = [ off EXCEPT ![p] = 0 ]
            /\ row' = [ row EXCEPT ![p] = 0 ]
            /\ pc' = [ pc EXCEPT ![p] = "status" ]
  /\ UNCHANGED << env, handles, svcmgrConnection, serviceList, idx,
                  serviceHandle, serviceConfig, serviceStatus, dst, err, ops >>

\* one ch <- status row, lines 230-240; after the last one the loop of line
\* 169 goes on, and the handle of the service has not been closed
SendStatus(p) ==
  /\ pc[p] = "status"
  /\ ch' = [ ch EXCEPT ![p] =
              Append(@, LiveStatusRows(serviceList[p][idx[p]])[row[p] + 1]) ]
  /\ IF row[p] + 1 < Len(allStatuses)
       THEN /\ row' = [ row EXCEPT ![p] = @ + 1 ]
            /\ UNCHANGED << idx, pc >>
       ELSE /\ row' = [ row EXCEPT ![p] = 0 ]
            /\ NextIteration(p)
  /\ UNCHANGED << env, handles, svcmgrConnection, serviceList, serviceHandle,
                  serviceConfig, serviceStatus, dst, off, err, ops >>

\* a bug: the disconnect called at the end of the function, not deferred
DisconnectAtEnd(p) ==
  /\ pc[p] = "defer"
  /\ IF err[p] = "nil"
       THEN /\ ops' = [ ops EXCEPT ![p] =
                          Append(@, Op("Disconnect", TRUE, svcmgrConnection[p], 0)) ]
            /\ handles' = CloseHandle(handles, svcmgrConnection[p])
       ELSE UNCHANGED << ops, handles >>
  /\ pc' = [ pc EXCEPT ![p] = "done" ]
  /\ UNCHANGED << env, svcmgrConnection, serviceList, idx, serviceHandle,
                  serviceConfig, serviceStatus, dst, row, off, ch, err >>

\* the deferred svcmgrConnection.Disconnect() of line 160, run at the return
Disconnect(p) ==
  /\ pc[p] = "defer"
  /\ ops' = [ ops EXCEPT ![p] =
                Append(@, Op("Disconnect", TRUE, svcmgrConnection[p], 0)) ]
  /\ handles' = CloseHandle(handles, svcmgrConnection[p])
  /\ pc' = [ pc EXCEPT ![p] = "done" ]
  /\ UNCHANGED << env, svcmgrConnection, serviceList, idx, serviceHandle,
                  serviceConfig, serviceStatus, dst, row, off, ch, err >>

\* wmi.Query(q, &dst), lines 244-248
WMIQuery(p) ==
  /\ pc[p] = "start"
  /\ ~wmiDisabled
  /\ \E ok \in BOOLEAN :
       /\ ops' = [ ops EXCEPT ![p] = Append(@, Op("WMIQuery", ok, 0, 0)) ]
       /\ IF ok
            THEN /\ dst' = [ dst EXCEPT ![p] = wmi ]
                 /\ idx' = [ idx EXCEPT ![p] = 1 ]
                 /\ pc' = [ pc EXCEPT ![p] =
                              IF Len(wmi) = 0 THEN "done" ELSE "winfo" ]
                 /\ err' = err
            ELSE /\ err' = [ err EXCEPT ![p] = "query" ]
                 /\ pc' = [ pc EXCEPT ![p] = "done" ]
                 /\ UNCHANGED << dst, idx >>
  /\ UNCHANGED << env, handles, svcmgrConnection, serviceList, serviceHandle,
                  serviceConfig, serviceStatus, row, off, ch >>

\* the loop of line 249 moves to its next element, or ends
WMINextIteration(p) ==
  /\ idx' = [ idx EXCEPT ![p] = @ + 1 ]
  /\ pc' = [ pc EXCEPT ![p] =
               IF idx[p] + 1 > Len(dst[p]) THEN "done" ELSE "winfo" ]

\* ch <- info row, lines 250-264
WMISendInfo(p) ==
  /\ pc[p] = "winfo"
  /\ ch' = [ ch EXCEPT ![p] = Append(@, WMIInfoRow(dst[p][idx[p]])) ]
  /\ row' = [ row EXCEPT ![p] = 0 ]
  /\ pc' = [ pc EXCEPT ![p] = "wstate" ]
  /\ UNCHANGED << env, handles, svcmgrConnection, serviceList, idx,
                  serviceHandle, serviceConfig, serviceStatus, dst, off, err,
                  ops >>

\* one ch <- state row, lines 266-278
WMISendState(p) ==
  /\ pc[p] = "wstate"
  /\ ch' = [ ch EXCEPT ![p] =
              Append(@, WMIStateRows(dst[p][idx[p]])[row[p] + 1]) ]
  /\ IF row[p] + 1 < Len(allStates)
       THEN row' = [ row EXCEPT ![p] = @ + 1 ] /\ pc' = pc
       ELSE row' = [ row EXCEPT ![p] = 0 ]
            /\ pc' = [ pc EXCEPT ![p] = "wmode" ]
  /\ UNCHANGED << env, handles, svcmgrConnection, serviceList, idx,
                  serviceHandle, serviceConfig, serviceStatus, dst, off, err,
                  ops >>

\* one ch <- start_mode row, lines 280-292
WMISendStartMode(p) ==
  /\ pc[p] = "wmode"
  /\ ch' = [ ch EXCEPT ![p] =
              Append(@, WMIStartModeRows(dst[p][idx[p]])[row[p] + 1]) ]
  /\ IF row[p] + 1 < Len(allStartModes)
       THEN row' = [ row EXCEPT ![p] = @ + 1 ] /\ pc' = pc
       ELSE row' = [ row EXCEPT ![p] = 0 ]
            /\ pc' = [ pc EXCEPT ![p] = "wstatus" ]
  /\ UNCHANGED << env, handles, svcmgrConnection, serviceList, idx,
                  serviceHandle, serviceConfig, serviceStatus, dst, off, err,
                  ops >>

\* one ch <- status row, lines 294-306; after the last one the loop of line
\* 249 goes on
WMISendStatus(p) ==
  /\ pc[p] = "wstatus"
  /\ ch' = [ ch EXCEPT ![p] =
              Append(@, WMIStatusRows(dst[p][idx[p]])[row[p] + 1]) ]
  /\ IF row[p] + 1 < Len(allStatuses)
       THEN /\ row' = [ row EXCEPT ![p] = @ + 1 ]
            /\ UNCHANGED << idx, pc >>
       ELSE /\ row' = [ row EXCEPT ![p] = 0 ]
            /\ WMINextIteration(p)
  /\ UNCHANGED << env, handles, svcmgrConnection, serviceList, serviceHandle,
                  serviceConfig, serviceStatus, dst, off, err, ops >>

Next ==
  \/ \E p \in passes : Connect(p)
  \/ \E p \in passes : ListServices(p)
  \/ \E p \in passes : OpenService(p)
  \/ \E p \in passes : Config(p)
  \/ \E p \in passes : Query(p)
  \/ \E p \in passes : Close(p)
  \/ \E p \in passes : SendInfo(p)
  \/ \E p \in passes : SendState(p)
  \/ \E p \in passes : SendStartMode(p)
  \/ \E p \in passes : SendStatus(p)
  \/ \E p \in passes : Disconnect(p)
  \/ \E p \in passes : WMIQuery(p)
  \/ \E p \in passes : WMISendInfo(p)
  \/ \E p \in passes : WMISendState(p)
  \/ \E p \in passes : WMISendStartMode(p)
  \/ \E p \in passes : WMISendStatus(p)

Spec == Init /\ [][Next]_vars

SpecConc == InitConc /\ [][Next]_vars

(* ------------------------- vocabulary of the claims --------------------- *)
Live(p) == p \in passes /\ wmiDisabled
Done(p) == pc[p] = "done"

\* the name labels under which pass p has sent rows
SentNames(p) == { ch[p][i].labels[1] : i \in DOMAIN ch[p] }

\* the pass is between the first and the last send of one service
Sending(p) ==
  pc[p] \in { "state", "mode", "status", "wstate", "wmode", "wstatus" }

\* the name label of the service of the current loop iteration
CurrentName(p) ==
  IF wmiDisabled THEN ToLower(serviceList[p][idx[p]])
                 ELSE ToLower(dst[p][idx[p]].Name)

\* the services pass p has emitted: those all of whose sends are done
EmittedNames(p) ==
  SentNames(p) \ (IF Sending(p) THEN { CurrentName(p) } ELSE {})

\* the rows of one kind pass p has sent for the service labelled n
RowsOf(p, n, kind) ==
  SelectSeq(ch[p], LAMBDA r : r.kind = kind /\ r.labels[1] = n)

AllRowsOf(p, n) == SelectSeq(ch[p], LAMBDA r : r.labels[1] = n)

\* the rows carry every label of canon exactly once, and no other label
LabelsExactly(rows, canon) ==
  /\ Len(rows) = Len(canon)
  /\ \A i \in DOMAIN canon :
       Cardinality({ j \in DOMAIN rows : rows[j].labels[2] = canon[i] }) = 1

Ones(rows) == { j \in DOMAIN rows : rows[j].value = 1 }
Zeros(rows) == { j \in DOMAIN rows : rows[j].value = 0 }

\* exactly one row is 1, it carries the label, every other row is 0
OneHot(rows, label) ==
  /\ Cardinality(Ones(rows)) = 1
  /\ \A j \in Ones(rows) : rows[j].labels[2] = label
  /\ Ones(rows) \cup Zeros(rows) = DOMAIN rows

AllZero(rows) == Zeros(rows) = DOMAIN rows

\* the raw record behind the name label n, in the table the backend reads
RawOf(n) ==
  IF wmiDisabled
    THEN scm[CHOOSE i \in DOMAIN scm : ToLower(scm[i].Name) = n]
    ELSE wmi[CHOOSE i \in DOMAIN wmi : ToLower(wmi[i].Name) = n]

StateKnown(n) ==
  IF wmiDisabled
    THEN RawOf(n).State \in MapKeys(apiStateValues)
    ELSE ToLower(RawOf(n).State) \in Range(allStates)

StateLabel(n) ==
  IF wmiDisabled
    THEN MapGet(apiStateValues, RawOf(n).State)
    ELSE ToLower(RawOf(n).State)

StartModeKnown(n) ==
  IF wmiDisabled
    THEN RawOf(n).StartType \in MapKeys(apiStartModeValues)
    ELSE ToLower(RawOf(n).StartMode) \in Range(allStartModes)

StartModeLabel(n) ==
  IF wmiDisabled
    THEN MapGet(apiStartModeValues, RawOf(n).StartType)
    ELSE ToLower(RawOf(n).StartMode)

OpsOf(p, op) == { k \in DOMAIN ops[p] : ops[p][k].op = op }
FailedOps(p, names) ==
  { k \in DOMAIN ops[p] : ops[p][k].op \in names /\ ~ops[p][k].ok }

\* a connect, list-services or bulk-query step of the pass has failed
WholePassFailure(p) ==
  FailedOps(p, { "Connect", "ListServices", "WMIQuery" }) # {}

\* the open, config or status-query step of the i-th listed service failed
ServiceFailed(p, i) ==
  \E k \in FailedOps(p, { "OpenService", "Config", "Query" }) : ops[p][k].i = i

(* -------------------------------- claims ------------------------------- *)

\* C1 (as claimed): every service a pass emits rows for gets exactly 26 rows
\* under either backend: 1 info, 8 state, 5 start_mode, 12 status, and each
\* enumeration carries every canonical value, "unknown" included, exactly
\* once and nothing else.
C1_RowCount26 ==
  \A p \in passes : \A n \in EmittedNames(p) :
    /\ Len(AllRowsOf(p, n)) = 26
    /\ Len(RowsOf(p, n, "info")) = 1
    /\ LabelsExactly(RowsOf(p, n, "state"), allStates)
    /\ LabelsExactly(RowsOf(p, n, "start_mode"), allStartModes)
    /\ LabelsExactly(RowsOf(p, n, "status"), allStatuses)

\* C2 (as claimed): an emitted service whose raw state is known has exactly
\* one state row of value 1, labelled with the canonical name of that state,
\* and exactly |States| - 1 = 7 state rows of value 0.
C2_KnownStateOneHot ==
  \A p \in passes : \A n \in EmittedNames(p) :
    StateKnown(n) =>
      /\ OneHot(RowsOf(p, n, "state"), StateLabel(n))
      /\ Cardinality(Zeros(RowsOf(p, n, "state"))) = Len(allStates) - 1

\* C3 (as claimed): whatever the raw start mode of an emitted service, known
\* or not, exactly one of its start_mode rows is 1 and all others are 0.
C3_StartModeAlwaysOneHot ==
  \A p \in passes : \A n \in EmittedNames(p) :
    LET rows == RowsOf(p, n, "start_mode") IN
    /\ Cardinality(Ones(rows)) = 1
    /\ Ones(rows) \cup Zeros(rows) = DOMAIN rows

\* C3 (amended): an emitted service has one start_mode row per canonical
\* start mode; when its raw start mode is one of the five known ones (for
\* WMI: case-insensitively) exactly one row is 1, the one labelled with that
\* mode, and the others are 0; when it is any other value all five rows are 0.
C3_StartModeOneHotWhenKnown ==
  \A p \in passes : \A n \in EmittedNames(p) :
    LET rows == RowsOf(p, n, "start_mode") IN
    /\ LabelsExactly(rows, allStartModes)
    /\ IF StartModeKnown(n)
         THEN OneHot(rows, StartModeLabel(n))
         ELSE AllZero(rows)

\* C3 witness: a finished pass has emitted a service of a known start mode
\* and one of an unknown start mode, whose start_mode rows are all 0.
C3_Witness ==
  \E p \in passes :
    /\ Done(p)
    /\ \E n, m \in EmittedNames(p) :
         /\ StartModeKnown(n) /\ OneHot(RowsOf(p, n, "start_mode"), StartModeLabel(n))
         /\ ~StartModeKnown(m) /\ AllZero(RowsOf(p, m, "start_mode"))
         /\ Len(RowsOf(p, m, "start_mode")) = 5

\* C4 (as claimed): when the raw state of an emitted service has no canonical
\* mapping the pass does not fail, and the service's state row labelled
\* "unknown" is 1 while its other state rows are 0.
C4_UnmappedStateIsUnknown ==
  \A p \in passes : \A n \in EmittedNames(p) :
    ~StateKnown(n) =>
      /\ err[p] = "nil"
      /\ OneHot(RowsOf(p, n, "state"), "unknown")

\* the listed services of pass p none of whose three steps failed, in list order
Survivors(p) ==
  SelectSeq([ i \in 1..Len(serviceList[p]) |-> i ],
            LAMBDA i : ~ServiceFailed(p, i))

\* the name labels of the info rows of pass p, in emission order
InfoNames(p) ==
  LET rows == SelectSeq(ch[p], LAMBDA r : r.kind = "info") IN
  [ j \in 1..Len(rows) |-> rows[j].labels[1] ]

\* the rows of pass p come in one block per info row, each block holding the
\* info row and then the state, start_mode and status rows of the same service
InBlocks(p) ==
  LET size == 1 + Len(apiStateValues) + Len(allStartModes) + Len(allStatuses) IN
  /\ Len(ch[p]) = size * Len(InfoNames(p))
  /\ \A j \in DOMAIN ch[p] :
       LET first == j - ((j - 1) % size) IN
       /\ ch[p][first].kind = "info"
       /\ ch[p][j].labels[1] = ch[p][first].labels[1]
       /\ ch[p][j].kind =
            IF j = first THEN "info"
            ELSE IF j - first <= Len(apiStateValues) THEN "state"
            ELSE IF j - first <= Len(apiStateValues) + Len(allStartModes)
              THEN "start_mode"
            ELSE "status"

\* C5: in a finished API pass whose connect and list-services steps
\* succeeded, a service whose open, config or status-query step failed has
\* no row at all, every other listed service has its whole block of rows, the
\* blocks follow the list order, and the pass returns nil, however many
\* services were skipped.
C5_SkipFailedServices ==
  \A p \in passes :
    (Live(p) /\ Done(p) /\ ~WholePassFailure(p)) =>
      /\ err[p] = "nil"
      /\ InBlocks(p)
      /\ InfoNames(p) =
           [ j \in 1..Len(Survivors(p)) |->
               ToLower(serviceList[p][Survivors(p)[j]]) ]
      /\ \A i \in 1..Len(serviceList[p]) :
           ServiceFailed(p, i) =>
             ToLower(serviceList[p][i]) \notin SentNames(p)

\* C5 witness: a finished API pass over two services skipped the first one
\* and emitted the second one.
C5_Witness ==
  \E p \in passes :
    /\ Live(p) /\ Done(p) /\ err[p] = "nil"
    /\ Len(serviceList[p]) = 2
    /\ ServiceFailed(p, 1) /\ ~ServiceFailed(p, 2)
    /\ SentNames(p) = { ToLower(serviceList[p][2]) }

\* C6: the pass's error is non-nil exactly when a connect, list-services or
\* bulk-query step failed; a pass with an error has sent no row; and no row
\* has been sent while a step that can fail the whole pass is still ahead.
C6_ErrorIffWholePassFailure ==
  \A p \in passes :
    /\ (err[p] # "nil") <=> WholePassFailure(p)
    /\ err[p] # "nil" => ch[p] = <<>>
    /\ pc[p] \in { "start", "list" } => ch[p] = <<>>

\* C6 witness: a pass that failed at list-services has returned its error
\* with no row sent; the service table was not empty.
C6_Witness ==
  \E p \in passes :
    /\ Done(p) /\ err[p] = "list" /\ ch[p] = <<>> /\ Len(scm) > 0

\* C7 (as claimed): when an API pass has returned, every service handle it
\* opened is closed: the pass holds no open handle.
C7_NoServiceHandleLeft ==
  \A p \in passes :
    Done(p) => ~\E h \in handles : h.by = p /\ h.kind = "svc"

\* the history entries the step adds for pass p
NewOps(p) == { k \in DOMAIN ops'[p] : k > Len(ops[p]) }

\* C8: a pass opens at most one manager connection, holds it open while it
\* works on it, and has disconnected it when it returns, on the failure path
\* and on the normal one; under any interleaving of passes a handle is closed
\* only by a step of the pass that opened it, and every call on a handle is
\* made by the pass that opened it while it is open.
C8_OwnConnectionReleased ==
  /\ [](\A p \in passes :
          /\ Cardinality({ k \in OpsOf(p, "Connect") : ops[p][k].ok }) <= 1
          /\ Cardinality({ h \in handles : h.by = p /\ h.kind = "scm" }) <= 1
          /\ pc[p] \notin { "start", "done" } /\ wmiDisabled =>
               \E h \in handles :
                 h.id = svcmgrConnection[p] /\ h.by = p /\ h.kind = "scm"
          /\ Done(p) =>
               /\ ~\E h \in handles : h.by = p /\ h.kind = "scm"
               /\ Cardinality(OpsOf(p, "Disconnect")) =
                    Cardinality({ k \in OpsOf(p, "Connect") : ops[p][k].ok }))
  /\ [][ /\ \A h \in handles : h \notin handles' => NewOps(h.by) # {}
         /\ \A p \in passes : \A k \in NewOps(p) :
              ops'[p][k].h # 0 =>
                \E h \in handles : h.id = ops'[p][k].h /\ h.by = p ]_vars

\* C8 witness: of two concurrent passes one has returned after a failed
\* list-services, its connection closed, while the other is sending the rows
\* of a service on its own connection, which is still open.
C8_Witness ==
  \E p, q \in passes :
    /\ p # q /\ Done(p) /\ err[p] = "list"
    /\ OpsOf(p, "Disconnect") # {}
    /\ pc[q] \in { "state", "mode", "status" } /\ ch[q] # <<>>
    /\ \E h \in handles : h.id = svcmgrConnection[q] /\ h.by = q

\* C9: every status row of an API pass has value 0, and every service the
\* pass emits has one status row for each of the 12 canonical statuses.
C9_LiveStatusAllZero ==
  \A p \in passes :
    Live(p) =>
      /\ \A j \in DOMAIN ch[p] : ch[p][j].kind = "status" => ch[p][j].value = 0
      /\ \A n \in EmittedNames(p) :
           LabelsExactly(RowsOf(p, n, "status"), allStatuses)

\* C9 witness: a finished API pass has emitted the rows of a running service.
C9_Witness ==
  \E p \in passes :
    /\ Live(p) /\ Done(p)
    /\ \E n \in EmittedNames(p) :
         /\ RawOf(n).State = SERVICE_RUNNING
         /\ Len(RowsOf(p, n, "status")) = 12

CountOp(p, op, i) ==
  Cardinality({ k \in OpsOf(p, op) : ops[p][k].i = i })

\* C10: a pass tries connect, list-services and the bulk query at most once
\* each and open, config and query at most once per listed service; it calls
\* only the backend the flag selects; and once a whole-pass step has failed it
\* sends no row and makes no backend call but the release of the manager
\* connection, and none at all after it has returned.
C10_NoRetryFailFast ==
  /\ [](\A p \in passes :
          /\ \A op \in { "Connect", "ListServices", "WMIQuery", "Disconnect" } :
               CountOp(p, op, 0) <= 1
          /\ \A op \in { "OpenService", "Config", "Query", "Close" } :
               \A i \in 0..Len(serviceList[p]) :
                 CountOp(p, op, i) <= (IF i = 0 THEN 0 ELSE 1)
          /\ \A k \in DOMAIN ops[p] :
               IF wmiDisabled THEN ops[p][k].op # "WMIQuery"
                              ELSE ops[p][k].op = "WMIQuery")
  /\ [][ \A p \in passes :
           /\ err[p] # "nil" =>
                /\ ch'[p] = ch[p]
                /\ \A k \in NewOps(p) : ops'[p][k].op = "Disconnect"
           /\ Done(p) => ch'[p] = ch[p] /\ ops'[p] = ops[p] /\ Done(p)' ]_vars

\* C10 witness: a pass that failed at list-services has returned having made
\* three backend calls: connect, list-services, disconnect.
C10_Witness ==
  \E p \in passes :
    /\ Done(p) /\ err[p] = "list" /\ Len(scm) > 0
    /\ [ k \in DOMAIN ops[p] |-> ops[p][k].op ] =
         << "Connect", "ListServices", "Disconnect" >>

====
